---- MODULE Spec2Model ----
(***************************************************************************)
(* Z leadscrew tilt correction of RepRapFirmware: ZLeadscrewKinematics     *)
(* (M671 configuration and the least-squares auto calibration run).        *)
(*                                                                         *)
(* Floating point values (float, floatc_t) are modelled as exact rationals *)
(* extended with the IEEE specials: <<n, d>> with d > 0 in lowest terms is *)
(* the number n/d, <<1, 0>> is +Inf, <<-1, 0>> is -Inf and <<0, 0>> is     *)
(* NaN.  Rounding and the sign of zero are not modelled.                   *)
(***************************************************************************)
EXTENDS Integers, Sequences, FiniteSets, TLC

\* ------------------------------------------------------------ arithmetic

\* f itself; comparing a function makes TLC tabulate it once instead of
\* recomputing an element at every use.
Tab(f) == IF f = f THEN f ELSE f

IAbs(n) == IF n < 0 THEN -n ELSE n

ISign(n) == IF n < 0 THEN -1 ELSE IF n > 0 THEN 1 ELSE 0

RECURSIVE GCD(_, _)
GCD(a, b) == IF b = 0 THEN a ELSE GCD(b, a % b)

\* The value n/d in the representation above.
Norm(n, d) ==
    LET By(g) == IF d < 0 THEN <<(-n) \div g, (-d) \div g>> ELSE <<n \div g, d \div g>>
    IN  IF d = 0 THEN <<ISign(n), 0>> ELSE By(GCD(IAbs(n), IAbs(d)))

NaN == <<0, 0>>
Zero == <<0, 1>>
One == <<1, 1>>

isnan(a) == a = NaN

FNeg(a) == <<-a[1], a[2]>>

FAdd(a, b) ==
    IF a[2] = 0 /\ b[2] = 0
    THEN (IF a = b THEN a ELSE NaN)       \* Inf + Inf, Inf - Inf, NaN + x
    ELSE IF a[2] = 0 THEN a
    ELSE IF b[2] = 0 THEN b
    ELSE IF a[2] = 1 /\ b[2] = 1 THEN <<a[1] + b[1], 1>>
    ELSE LET Over(g) == Norm(a[1] * (b[2] \div g) + b[1] * (a[2] \div g),
                             (a[2] \div g) * b[2])
         IN  Over(GCD(a[2], b[2]))

FSub(a, b) == FAdd(a, FNeg(b))

\* a[1] and b[2], b[1] and a[2] are reduced before the two products.
FMul(a, b) ==
    LET Cross(g, h) == <<(a[1] \div g) * (b[1] \div h), (a[2] \div h) * (b[2] \div g)>>
    IN  IF a[2] = 0 \/ b[2] = 0 THEN <<ISign(a[1]) * ISign(b[1]), 0>>
        ELSE IF a[2] = 1 /\ b[2] = 1 THEN <<a[1] * b[1], 1>>
        ELSE Cross(GCD(IAbs(a[1]), b[2]), GCD(IAbs(b[1]), a[2]))

\* b's reciprocal: 1/0 = +Inf, 1/Inf = 0, 1/NaN = NaN.
FInv(b) ==
    IF b = NaN THEN NaN
    ELSE IF b[1] < 0 THEN <<-b[2], -b[1]>>
    ELSE <<b[2], b[1]>>

FDiv(a, b) == FMul(a, FInv(b))

fcsquare(a) == FMul(a, a)

fabsf(a) == <<IAbs(a[1]), a[2]>>

\* a > b as IEEE compares: false when either side is NaN.
FGt(a, b) ==
    /\ ~isnan(a)
    /\ ~isnan(b)
    /\ a # b
    /\ IF a[2] = 0 THEN a[1] > 0
       ELSE IF b[2] = 0 THEN b[1] < 0
       ELSE a[1] * b[2] > b[1] * a[2]

FLt(a, b) == FGt(b, a)

\* Sum of a sequence of values, added left to right.
RECURSIVE FSumTo(_, _)
FSumTo(s, n) == IF n = 0 THEN Zero ELSE FAdd(FSumTo(s, n - 1), s[n])

FSum(s) == FSumTo(Tab(s), Len(s))

\* ------------------------------------------------------- program constants

\* Capacity of leadscrewX, leadscrewY and lastCorrections.
MaxLeadscrews == 4

M3ScrewPitch == <<1, 2>>

Screws == 0 .. (MaxLeadscrews - 1)

\* ------------------------------------------------- derivative matrix rows

\* s * a * b, one signed product of an expanded numerator.
T(s, a, b) ==
    LET Signed(v) == IF s < 0 THEN FNeg(v) ELSE v
    IN  Signed(FMul(a, b))

\* case 2: the row of the derivative matrix for a probe point at (x, y).
DerivativeRow2(lx, ly, x, y) ==
    LET x0 == lx[0]  x1 == lx[1]
        y0 == ly[0]  y1 == ly[1]
        Row(d2, n0, n1) ==
            Tab([j \in 0 .. 1 |-> IF j = 0 THEN FDiv(FNeg(n0), d2) ELSE FDiv(FNeg(n1), d2)])
    IN  Row(FAdd(fcsquare(FSub(x1, x0)), fcsquare(FSub(y1, y0))),
            FSum(<<fcsquare(y1), T(-1, y0, y1), T(-1, y, FSub(y1, y0)),
                   fcsquare(x1), T(-1, x0, x1), T(-1, x, FSub(x1, x0))>>),
            FSum(<<fcsquare(y0), T(-1, y0, y1), T(1, y, FSub(y1, y0)),
                   fcsquare(x0), T(-1, x0, x1), T(1, x, FSub(x1, x0))>>))

\* case 3
DerivativeRow3(lx, ly, x, y) ==
    LET x0 == lx[0]  x1 == lx[1]  x2 == lx[2]
        y0 == ly[0]  y1 == ly[1]  y2 == ly[2]
        Row(d2, n0, n1, n2) ==
            Tab([j \in 0 .. 2 |-> CASE j = 0 -> FDiv(FNeg(n0), d2)
                                    [] j = 1 -> FDiv(n1, d2)
                                    [] j = 2 -> FDiv(FNeg(n2), d2)])
    IN  Row(FSum(<<T(1, x1, y2), T(-1, x0, y2), T(-1, x2, y1),
                   T(1, x0, y1), T(1, x2, y0), T(-1, x1, y0)>>),
            FSum(<<T(1, x1, y2), T(-1, x, y2), T(-1, x2, y1),
                   T(1, x, y1), T(1, x2, y), T(-1, x1, y)>>),
            FSum(<<T(1, x0, y2), T(-1, x, y2), T(-1, x2, y0),
                   T(1, x, y0), T(1, x2, y), T(-1, x0, y)>>),
            FSum(<<T(1, x0, y1), T(-1, x, y1), T(-1, x1, y0),
                   T(1, x, y0), T(1, x1, y), T(-1, x0, y)>>))

\* case 4.  The sums of the source as lists of terms <<sign, a, b>>, each
\* the signed product of two of the products it names (x01 = x0 * x1,
\* xx0 = x * x0, and so on).
Case4d2 ==
    <<<<1, "x13", "y23">>, <<-1, "x03", "y23">>, <<-1, "x12", "y23">>, <<1, "x02", "y23">>,
      <<-1, "x23", "y13">>, <<1, "x03", "y13">>, <<1, "x12", "y13">>, <<-1, "x01", "y13">>,
      <<1, "x23", "y03">>, <<-1, "x13", "y03">>, <<-1, "x02", "y03">>, <<1, "x01", "y03">>,
      <<1, "x23", "y12">>, <<-1, "x13", "y12">>, <<-1, "x02", "y12">>, <<1, "x01", "y12">>,
      <<-1, "x23", "y02">>, <<1, "x03", "y02">>, <<1, "x12", "y02">>, <<-1, "x01", "y02">>,
      <<1, "x13", "y01">>, <<-1, "x03", "y01">>, <<-1, "x12", "y01">>, <<1, "x02", "y01">>>>

\* the sum in derivativeMatrix(i, 0)
Case4Column0 ==
    <<<<1, "x13", "y23">>, <<-1, "xx3", "y23">>, <<-1, "x12", "y23">>, <<1, "xx2", "y23">>,
      <<-1, "x23", "y13">>, <<1, "xx3", "y13">>, <<1, "x12", "y13">>, <<-1, "xx1", "y13">>,
      <<1, "x23", "yy3">>, <<-1, "x13", "yy3">>, <<-1, "xx2", "yy3">>, <<1, "xx1", "yy3">>,
      <<1, "x23", "y12">>, <<-1, "x13", "y12">>, <<-1, "xx2", "y12">>, <<1, "xx1", "y12">>,
      <<-1, "x23", "yy2">>, <<1, "xx3", "yy2">>, <<1, "x12", "yy2">>, <<-1, "xx1", "yy2">>,
      <<1, "x13", "yy1">>, <<-1, "xx3", "yy1">>, <<-1, "x12", "yy1">>, <<1, "xx2", "yy1">>>>

\* the sum in derivativeMatrix(i, 1)
Case4Column1 ==
    <<<<1, "x03", "y23">>, <<-1, "xx3", "y23">>, <<-1, "x02", "y23">>, <<1, "xx2", "y23">>,
      <<-1, "x23", "y03">>, <<1, "xx3", "y03">>, <<1, "x02", "y03">>, <<-1, "xx0", "y03">>,
      <<1, "x23", "yy3">>, <<-1, "x03", "yy3">>, <<-1, "xx2", "yy3">>, <<1, "xx0", "yy3">>,
      <<1, "x23", "y02">>, <<-1, "x03", "y02">>, <<-1, "xx2", "y02">>, <<1, "xx0", "y02">>,
      <<-1, "x23", "yy2">>, <<1, "xx3", "yy2">>, <<1, "x02", "yy2">>, <<-1, "xx0", "yy2">>,
      <<1, "x03", "yy0">>, <<-1, "xx3", "yy0">>, <<-1, "x02", "yy0">>, <<1, "xx2", "yy0">>>>

\* the sum in derivativeMatrix(i, 2)
Case4Column2 ==
    <<<<1, "x03", "y13">>, <<-1, "xx3", "y13">>, <<-1, "x01", "y13">>, <<1, "xx1", "y13">>,
      <<-1, "x13", "y03">>, <<1, "xx3", "y03">>, <<1, "x01", "y03">>, <<-1, "xx0", "y03">>,
      <<1, "x13", "yy3">>, <<-1, "x03", "yy3">>, <<-1, "xx1", "yy3">>, <<1, "xx0", "yy3">>,
      <<1, "x13", "y01">>, <<-1, "x03", "y01">>, <<-1, "xx1", "y01">>, <<1, "xx0", "y01">>,
      <<-1, "x13", "yy1">>, <<1, "xx3", "yy1">>, <<1, "x01", "yy1">>, <<-1, "xx0", "yy1">>,
      <<1, "x03", "yy0">>, <<-1, "xx3", "yy0">>, <<-1, "x01", "yy0">>, <<1, "xx1", "yy0">>>>

\* the sum in derivativeMatrix(i, 3)
Case4Column3 ==
    <<<<1, "x02", "y12">>, <<-1, "xx2", "y12">>, <<-1, "x01", "y12">>, <<1, "xx1", "y12">>,
      <<-1, "x12", "y02">>, <<1, "xx2", "y02">>, <<1, "x01", "y02">>, <<-1, "xx0", "y02">>,
      <<1, "x12", "yy2">>, <<-1, "x02", "yy2">>, <<-1, "xx1", "yy2">>, <<1, "xx0", "yy2">>,
      <<1, "x12", "y01">>, <<-1, "x02", "y01">>, <<-1, "xx1", "y01">>, <<1, "xx0", "y01">>,
      <<-1, "x12", "yy1">>, <<1, "xx2", "yy1">>, <<1, "x01", "yy1">>, <<-1, "xx0", "yy1">>,
      <<1, "x02", "yy0">>, <<-1, "xx2", "yy0">>, <<-1, "x01", "yy0">>, <<1, "xx1", "yy0">>>>

\* The products case 4 names.
Case4Products(lx, ly, x, y) ==
    LET x0 == lx[0]  x1 == lx[1]  x2 == lx[2]  x3 == lx[3]
        y0 == ly[0]  y1 == ly[1]  y2 == ly[2]  y3 == ly[3]
    IN  [x01 |-> FMul(x0, x1), x02 |-> FMul(x0, x2), x03 |-> FMul(x0, x3),
         x12 |-> FMul(x1, x2), x13 |-> FMul(x1, x3), x23 |-> FMul(x2, x3),
         y01 |-> FMul(y0, y1), y02 |-> FMul(y0, y2), y03 |-> FMul(y0, y3),
         y12 |-> FMul(y1, y2), y13 |-> FMul(y1, y3), y23 |-> FMul(y2, y3),
         xx0 |-> FMul(x, x0), xx1 |-> FMul(x, x1), xx2 |-> FMul(x, x2), xx3 |-> FMul(x, x3),
         yy0 |-> FMul(y, y0), yy1 |-> FMul(y, y1), yy2 |-> FMul(y, y2), yy3 |-> FMul(y, y3)]

\* One of the sums, over the products v.
Case4Sum(terms, v) ==
    FSum([k \in 1 .. Len(terms) |-> T(terms[k][1], v[terms[k][2]], v[terms[k][3]])])

DerivativeRow4(lx, ly, x, y) ==
    LET Row(v, d2) ==
            Tab([j \in 0 .. 3 |-> CASE j = 0 -> FDiv(FNeg(Case4Sum(Case4Column0, v)), d2)
                                    [] j = 1 -> FDiv(Case4Sum(Case4Column1, v), d2)
                                    [] j = 2 -> FDiv(FNeg(Case4Sum(Case4Column2, v)), d2)
                                    [] j = 3 -> FDiv(Case4Sum(Case4Column3, v), d2)])
        With(v) == Row(v, Case4Sum(Case4d2, v))
    IN  With(Case4Products(lx, ly, x, y))

\* switch (numFactors): one row of derivativeMatrix.
DerivativeRow(numFactors, lx, ly, x, y) ==
    CASE numFactors = 2 -> DerivativeRow2(lx, ly, x, y)
      [] numFactors = 3 -> DerivativeRow3(lx, ly, x, y)
      [] numFactors = 4 -> DerivativeRow4(lx, ly, x, y)


\* ------------------------------------------------------------- Deviation

\* Deviation::Set.  deviationFromMean is the square root of the field
\* deviationSq kept here (a rational has no rational root in general);
\* the clamp at 0 is the one the code applies before the root.
DeviationSet(sumOfSquares, sum, numPoints) ==
    LET Clamped(mean, arg) ==
            [mean |-> mean, deviationSq |-> IF FLt(arg, Zero) THEN Zero ELSE arg]
        From(mean) ==
            Clamped(mean, FSub(FDiv(sumOfSquares, <<numPoints, 1>>), fcsquare(mean)))
    IN  From(FDiv(sum, <<numPoints, 1>>))

\* ----------------------------------------------------------- GaussJordan

SwapRows(m, i, j) == Tab([m EXCEPT ![i] = m[j], ![j] = m[i]])

\* Partial pivoting for column i: rows j = from .. numRows-1 are compared
\* with the largest magnitude seen so far and swapped into row i.
RECURSIVE PivotRows(_, _, _, _, _)
PivotRows(m, i, from, numRows, vmax) ==
    IF from >= numRows THEN m
    ELSE LET rmax == fabsf(m[from][i])
         IN  IF FGt(rmax, vmax)
             THEN PivotRows(SwapRows(m, i, from), i, from + 1, numRows, rmax)
             ELSE PivotRows(m, i, from + 1, numRows, vmax)

\* Row i eliminates column i from every other row.
Eliminate(m, i, numRows, numCols) ==
    LET v == m[i][i]
    IN  Tab([j \in 0 .. (numRows - 1) |->
                IF j = i THEN m[i]
                ELSE LET factor == FDiv(m[j][i], v)
                     IN  [k \in 0 .. (numCols - 1) |->
                            IF k = i THEN Zero
                            ELSE IF k > i THEN FSub(m[j][k], FMul(m[i][k], factor))
                            ELSE m[j][k]]])

\* FixedMatrix::GaussJordan on the numRows x numCols augmented matrix m,
\* from pivot i on.  No usable pivot (a zero one) fails.  A NaN pivot is
\* neither zero nor usable: nanPivotUsable says which way the solver takes it.
RECURSIVE GaussJordanFrom(_, _, _, _, _)
GaussJordanFrom(m, i, numRows, numCols, nanPivotUsable) ==
    IF i >= numRows
    THEN [ok |-> TRUE,
          m |-> Tab([r \in 0 .. (numRows - 1) |->
                        [c \in 0 .. (numCols - 1) |->
                            IF c = r THEN One
                            ELSE IF c >= numRows THEN FDiv(m[r][c], m[r][r])
                            ELSE m[r][c]]])]
    ELSE LET p == PivotRows(m, i, i + 1, numRows, fabsf(m[i][i]))
             v == p[i][i]
         IN  IF v = Zero \/ (isnan(v) /\ ~nanPivotUsable)
             THEN [ok |-> FALSE, m |-> p]
             ELSE GaussJordanFrom(Eliminate(p, i, numRows, numCols), i + 1,
                                  numRows, numCols, nanPivotUsable)

GaussJordan(m, numRows, numCols, nanPivotUsable) ==
    GaussJordanFrom(m, 0, numRows, numCols, nanPivotUsable)


\* ------------------------------------------------------------ reply text

\* printf("%.<k>f") with scale = 10^k: the nearest multiple of 1/scale
\* (ties to even); nan and inf print as themselves.
Fmt(v, scale) ==
    IF v[2] = 0 THEN v
    ELSE LET q == (v[1] * scale) \div v[2]
             r == (v[1] * scale) % v[2]
             up == 2 * r > v[2] \/ (2 * r = v[2] /\ q % 2 = 1)
         IN  Norm(IF up THEN q + 1 ELSE q, scale)

NoReply == [text |-> "", values |-> <<>>]

\* AppendCorrections: " %.3f" of corrections[i] for i < numLeadscrews.
AppendCorrections(corrections, numLeadscrews) ==
    [i \in 1 .. numLeadscrews |-> Fmt(corrections[i - 1], 1000)]

\* -------------------------------------------------- DoAutoCalibration

SupportsAutoCalibration(numLeadscrews) == numLeadscrews >= 2

\* Rows the loop over the probe points wrote; row 0 holds whatever the stack
\* held (junk) when there are no probe points.
DerivativeMatrix(numFactors, lx, ly, pp, junk) ==
    Tab([k \in 0 .. ((IF Len(pp) = 0 THEN 1 ELSE Len(pp)) - 1) |->
            IF k < Len(pp)
            THEN DerivativeRow(numFactors, lx, ly, pp[k + 1].x, pp[k + 1].y)
            ELSE [j \in 0 .. (numFactors - 1) |-> junk]])

\* probePoints.GetZHeight(k); past the last probed point the slot is stale.
GetZHeight(pp, k, junk) == IF k < Len(pp) THEN pp[k + 1].z ELSE junk

\* InitialDeviation without the call of Set: a Deviation as constructed.
InitialDeviationUnset(pp) == DeviationSet(Zero, Zero, 1)

\* initialDeviation: from the sum and sum of squares of the probed heights.
InitialDeviation(pp) ==
    DeviationSet(FSum([k \in 1 .. Len(pp) |-> fcsquare(pp[k].z)]),
                 FSum([k \in 1 .. Len(pp) |-> pp[k].z]),
                 Len(pp))

\* NormalMatrix with the heights not negated in column numFactors.
NormalMatrixUnnegated(numFactors, dm, pp, junk) ==
    LET last == (IF Len(pp) = 0 THEN 1 ELSE Len(pp)) - 1
    IN  Tab([i \in 0 .. (numFactors - 1) |->
                [j \in 0 .. numFactors |->
                    IF j < numFactors
                    THEN FSum([k \in 1 .. (last + 1) |-> FMul(dm[k - 1][i], dm[k - 1][j])])
                    ELSE FSum([k \in 1 .. (last + 1) |->
                                FMul(dm[k - 1][i], GetZHeight(pp, k - 1, junk))])]])

\* The normal equations: row i holds sum_k D(k,i)*D(k,j) for j < numFactors
\* and sum_k D(k,i) * -z(k) in column numFactors.  Point 0 is always read.
NormalMatrix(numFactors, dm, pp, junk) ==
    LET last == (IF Len(pp) = 0 THEN 1 ELSE Len(pp)) - 1
    IN  Tab([i \in 0 .. (numFactors - 1) |->
                [j \in 0 .. numFactors |->
                    IF j < numFactors
                    THEN FSum([k \in 1 .. (last + 1) |-> FMul(dm[k - 1][i], dm[k - 1][j])])
                    ELSE FSum([k \in 1 .. (last + 1) |->
                                FMul(dm[k - 1][i], FNeg(GetZHeight(pp, k - 1, junk)))])]])

\* Residuals with the fitted change subtracted from the height.
ResidualsSubtracted(numFactors, dm, pp, solution) ==
    Tab([i \in 1 .. Len(pp) |->
            FSum(<<pp[i].z>> \o [j \in 1 .. numFactors |->
                                    FNeg(FMul(solution[j - 1], dm[i - 1][j - 1]))])])

\* residuals[i] = z(i) + sum_j solution[j] * D(i,j)
Residuals(numFactors, dm, pp, solution) ==
    Tab([i \in 1 .. Len(pp) |->
            FSum(<<pp[i].z>> \o [j \in 1 .. numFactors |-> FMul(solution[j - 1], dm[i - 1][j - 1])])])

FinalDeviation(residuals) ==
    DeviationSet(FSum([i \in 1 .. Len(residuals) |-> fcsquare(residuals[i])]),
                 FSum(residuals),
                 Len(residuals))

\* ScaledSolution multiplying a copy: solution[] stays as solved.
ScaledSolutionOnCopy(solution, correctionFactor) == solution

\* The loop that checks the corrections: a NaN is left as it is, any other
\* component is multiplied by correctionFactor in place.
ScaledSolution(solution, correctionFactor) ==
    Tab([i \in DOMAIN solution |->
            IF isnan(solution[i]) THEN solution[i] ELSE FMul(solution[i], correctionFactor)])

\* HaveNaN testing solution[i] == NAN, which no value satisfies.
HaveNaNByEquality(solution) == FALSE

HaveNaN(solution) == \E i \in DOMAIN solution : isnan(solution[i])

\* HaveLargeCorrection testing each component before it is multiplied by
\* correctionFactor.
HaveLargeCorrectionUnscaled(solution, correctionFactor, maxCorrection) ==
    \E i \in DOMAIN solution :
        /\ ~isnan(solution[i])
        /\ FGt(fabsf(solution[i]), maxCorrection)

HaveLargeCorrection(solution, correctionFactor, maxCorrection) ==
    \E i \in DOMAIN solution :
        /\ ~isnan(solution[i])
        /\ FGt(fabsf(FMul(solution[i], correctionFactor)), maxCorrection)

\* RecordedCorrections with the loop left out: nothing is recorded.
RecordedCorrectionsNone(scaled, lastCorr, numLeadscrews) == lastCorr

\* lastCorrections[] after the corrections went to the motors.
RecordedCorrections(scaled, lastCorr, numLeadscrews) ==
    [i \in Screws |-> IF i < numLeadscrews THEN scaled[i] ELSE lastCorr[i]]

\* NetAdjustment without the first screw taken off.
NetAdjustmentAbsolute(scaled, i) == scaled[i]

\* Manual corrections: each screw relative to the first one.
NetAdjustment(scaled, i) == FSub(scaled[i], scaled[0])

ManualReply(scaled, numLeadscrews, screwPitch) ==
    [i \in 1 .. numLeadscrews |->
        LET netAdjustment == NetAdjustment(scaled, i - 1)
        IN  [turns |-> Fmt(FDiv(fabsf(netAdjustment), screwPitch), 100),
             dir |-> IF FGt(netAdjustment, Zero) THEN "down" ELSE "up",
             mm |-> Fmt(netAdjustment, 100)]]


\* FactorCountMismatch with < for !=: too many factors pass.
FactorCountMismatchBelow(numFactors, numLeadscrews) == numFactors < numLeadscrews

\* Whether the run stops at the factor count check.
FactorCountMismatch(numFactors, numLeadscrews) == numFactors # numLeadscrews

\* DriversMatch with the Z drivers not counted: the limit is tested in every
\* run without a NaN.
DriversMatchAlways(numZDrivers, numLeadscrews) == TRUE

\* DriversMatch with >= for ==: spare Z drivers also count as a match.
DriversMatchOrMore(numZDrivers, numLeadscrews) == numZDrivers >= numLeadscrews

\* Corrections go to the motors only when every leadscrew has its Z driver.
DriversMatch(numZDrivers, numLeadscrews) == numZDrivers = numLeadscrews

\* Failed with every branch but the one that moves the motors failing.
FailedUnlessApplied(branch) == branch # "apply"

\* failed, as the branch taken after the check of the corrections leaves it.
Failed(branch) == branch \in {"nan", "limit"}

\* SolveFailed with the solver's result ignored.
SolveFailedIgnored(ok) == FALSE

\* Whether the run stops at the solver's result; ok is what GaussJordan returned.
SolveFailed(ok) == ~ok

\* The rows of derivativeMatrix the loop over the probe points writes.
RowsWritten(numPoints) == 0 .. (numPoints - 1)

\* The rows the normal equations read: row 0, then rows 1 to numPoints - 1.
RowsReadByNormalMatrix(numPoints) == {0} \cup (1 .. (numPoints - 1))

\* The rows the residuals read.
RowsReadByResiduals(numPoints) == 0 .. (numPoints - 1)

\* The numerical part of a run, from the loop over the probe points to the
\* final deviation: what the solver returned, the deviation of the probed
\* heights, and what the code after the solver computes from the matrix the
\* solver left: the solution (before the correction factor), the residuals
\* and their deviation.
Fit(numFactors, lx, ly, pp, nanPivotUsable, junk) ==
    LET Result(ok, solution, residuals) ==
            [ok |-> ok, initialDeviation |-> InitialDeviation(pp),
             solution |-> solution, residuals |-> residuals,
             finalDeviation |-> FinalDeviation(residuals)]
        Checked(dm, ok, solution) ==
            Result(ok, solution, Residuals(numFactors, dm, pp, solution))
        Solved(dm, gj) ==
            Checked(dm, gj.ok, Tab([i \in 0 .. (numFactors - 1) |-> gj.m[i][numFactors]]))
        From(dm) ==
            Solved(dm, GaussJordan(NormalMatrix(numFactors, dm, pp, junk),
                                   numFactors, numFactors + 1, nanPivotUsable))
    IN  From(DerivativeMatrix(numFactors, lx, ly, pp, junk))

\* What one call of DoAutoCalibration does, as a record:
\*   ret        the value returned (TRUE: failed)
\*   reply      what was written to reply
\*   logged     whether the reply went to Platform::MessageF
\*   steps      the parts of the function that ran, in order
\*   pp         the probe points read
\*   solved     what GaussJordan returned, when it ran
\*   solution   the solver's result, before the correction factor
\*   scaled     solution[] as it stands after the loop that checks it
\*   residuals, finalDeviation
\*   adjust     the vectors passed to Move::AdjustLeadscrews
\*   initial    the deviations passed to SetInitialCalibrationDeviation
\*   latest     the (deviation, numFactors) passed to SetLatestCalibrationDeviation
\*   rowsWritten   the rows of derivativeMatrix the run wrote
\*   rowsRead      the rows of derivativeMatrix the run read
\*   counts        the numbers of points passed to Deviation::Set
\*   lastCorrections   lastCorrections[] on return
Quiet == [ret |-> FALSE, reply |-> NoReply, logged |-> FALSE, steps |-> <<>>,
          pp |-> <<>>, solution |-> <<>>, scaled |-> <<>>, residuals |-> <<>>,
          finalDeviation |-> <<>>, solved |-> <<>>, adjust |-> <<>>, initial |-> <<>>,
          latest |-> <<>>, rowsWritten |-> {}, rowsRead |-> {}, counts |-> <<>>]

\* fit is Fit(...) of the stored positions and the probe points; it is used
\* only past the two checks that open the function.
RunOutcome(fit, numLeadscrews, correctionFactor, maxCorrection, screwPitch, lastCorr, numFactors, pp, numZDrivers) ==
    IF ~SupportsAutoCalibration(numLeadscrews)
    THEN [Quiet EXCEPT !.ret = FALSE] @@ [lastCorrections |-> lastCorr]
    ELSE IF FactorCountMismatch(numFactors, numLeadscrews)
    THEN [Quiet EXCEPT !.ret = TRUE,
                       !.reply = [text |-> "Number of calibration factors not equal to number of leadscrews",
                                  values |-> <<numFactors, numLeadscrews>>]]
         @@ [lastCorrections |-> lastCorr]
    ELSE
    LET begun == [Quiet EXCEPT !.pp = pp, !.solved = <<fit.ok>>,
                               !.initial = <<fit.initialDeviation>>,
                               !.latest = <<[deviation |-> fit.initialDeviation,
                                             numFactors |-> 0]>>,
                               !.rowsWritten = RowsWritten(Len(pp)),
                               !.rowsRead = RowsReadByNormalMatrix(Len(pp)),
                               !.counts = <<Len(pp)>>]
    IN  IF SolveFailed(fit.ok)
        THEN [begun EXCEPT !.ret = TRUE,
                           !.reply = [text |-> "Unable to calculate screw corrections. Please choose different probe points.",
                                      values |-> <<>>],
                           !.steps = <<"derivatives", "publish", "normal", "solve">>]
             @@ [lastCorrections |-> lastCorr]
        ELSE
        LET solution == fit.solution
            scaled == ScaledSolution(solution, correctionFactor)
            solved == [begun EXCEPT !.solution = solution, !.scaled = scaled,
                                    !.residuals = fit.residuals,
                                    !.finalDeviation = fit.finalDeviation,
                                    !.rowsRead = @ \cup RowsReadByResiduals(Len(pp)),
                                    !.counts = @ \o <<Len(pp)>>,
                                    !.logged = TRUE]
            common == <<"derivatives", "publish", "normal", "solve", "residuals", "check">>
        IN  IF HaveNaN(solution)
            THEN [solved EXCEPT !.ret = Failed("nan"),
                                !.reply = [text |-> "Calibration failed, computed corrections:",
                                           values |-> AppendCorrections(scaled, numLeadscrews)],
                                !.steps = common \o <<"nan">>]
                 @@ [lastCorrections |-> lastCorr]
            ELSE IF DriversMatch(numZDrivers, numLeadscrews)
            THEN IF HaveLargeCorrection(solution, correctionFactor, maxCorrection)
                 THEN [solved EXCEPT !.ret = Failed("limit"),
                                     !.reply = [text |-> "Some computed corrections exceed configured limit",
                                                values |-> AppendCorrections(scaled, numLeadscrews)],
                                     !.steps = common \o <<"limit">>]
                      @@ [lastCorrections |-> lastCorr]
                 ELSE [solved EXCEPT !.ret = Failed("apply"),
                                     !.reply = [text |-> "Leadscrew adjustments made:",
                                                values |-> AppendCorrections(scaled, numLeadscrews)],
                                     !.steps = common \o <<"apply">>,
                                     !.adjust = <<scaled>>,
                                     !.latest = @ \o <<[deviation |-> fit.finalDeviation,
                                                        numFactors |-> numFactors]>>]
                      @@ [lastCorrections |-> RecordedCorrections(scaled, lastCorr, numLeadscrews)]
            ELSE [solved EXCEPT !.ret = Failed("manual"),
                                !.reply = [text |-> "Manual corrections required:",
                                           values |-> ManualReply(scaled, numLeadscrews, screwPitch)],
                                !.steps = common \o <<"manual">>]
                 @@ [lastCorrections |->
                       [i \in Screws |-> IF i < numLeadscrews THEN NetAdjustment(scaled, i)
                                         ELSE lastCorr[i]]]

\* ------------------------------------------------------------------ state

VARIABLES
    numLeadscrews,      \* ZLeadscrewKinematics::numLeadscrews
    leadscrewX,         \* leadscrewX[MaxLeadscrews]
    leadscrewY,         \* leadscrewY[MaxLeadscrews]
    correctionFactor,
    maxCorrection,
    screwPitch,
    lastCorrections,    \* lastCorrections[MaxLeadscrews]
    initialDeviation,   \* Move: set by SetInitialCalibrationDeviation
    latestDeviation,    \* Move: set by SetLatestCalibrationDeviation, with its numFactors
    adjustCalls,        \* every vector passed to Move::AdjustLeadscrews so far
    call,               \* the last call made on the object: its arguments and what it did
    nOps,               \* calls made so far
    writer,             \* the M671 in progress, when its writes are taken one by one
    observed,           \* what the object model functions last returned to a reader
    printMonitor,       \* the members of the PrintMonitor
    millis64            \* what millis64() returns

vars == <<numLeadscrews, leadscrewX, leadscrewY, correctionFactor, maxCorrection,
          screwPitch, lastCorrections, initialDeviation, latestDeviation,
          adjustCalls, call, nOps, writer, observed, printMonitor, millis64>>

\* ----------------------------------------------------------------- bounds

\* Calls made on the object in one behaviour.
MaxOps == 3

Q(n, d) == Norm(n, d)

Arr(s) == [i \in 1 .. Len(s) |-> Q(s[i], 1)]

\* What uninitialised storage may hold.
Junk == {Q(0, 1), Q(7, 1)}

M671Command(X, Y, S, P, F) == [X |-> X, Y |-> Y, S |-> S, P |-> P, F |-> F]

\* The M671 commands tried; <<>> is a letter not given.
Commands ==
    { M671Command(Arr(<<0, 4>>), Arr(<<0, 0>>), <<>>, <<>>, <<>>),              \* 2 screws on a line
      M671Command(Arr(<<0, 0>>), Arr(<<0, 0>>), <<>>, <<>>, <<>>),              \* 2 screws at one position
      M671Command(Arr(<<0, 4, 2>>), Arr(<<0, 0, 4>>), <<>>, <<>>, <<>>),        \* 3 screws, a triangle
      M671Command(Arr(<<0, 4, 2>>), Arr(<<0, 0, 4>>),
                  <<Q(1, 2)>>, <<Q(1, 1)>>, <<Q(1, 2)>>),                       \* the same with S, P, F
      M671Command(Arr(<<0, 4, 4, 0>>), Arr(<<0, 0, 4, 4>>), <<>>, <<>>, <<>>),  \* 4 screws, a square
      M671Command(Arr(<<0>>), Arr(<<0>>), <<>>, <<>>, <<>>),                    \* 1 pair
      M671Command(Arr(<<0, 4, 2>>), Arr(<<0, 0>>), <<>>, <<>>, <<>>),           \* 3 X, 2 Y
      M671Command(Arr(<<0, 4, 2>>), Arr(<<0, 0>>),
                  <<Q(1, 2)>>, <<Q(1, 1)>>, <<Q(1, 2)>>),                       \* the same with S, P, F
      M671Command(Arr(<<0, 0>>), <<>>, <<>>, <<>>, <<Q(1, 2)>>),                \* X alone, with F
      M671Command(<<>>, Arr(<<0, 0, 0>>), <<>>, <<>>, <<>>),                    \* Y alone
      M671Command(<<>>, <<>>, <<Q(1, 2)>>, <<>>, <<>>),                         \* S
      M671Command(<<>>, <<>>, <<>>, <<Q(1, 1)>>, <<>>),                         \* P
      M671Command(<<>>, <<>>, <<>>, <<>>, <<Q(1, 2)>>),                         \* F
      M671Command(<<>>, <<>>, <<Q(2, 1)>>, <<Q(1, 1)>>, <<Q(1, 2)>>),           \* S, P and F
      M671Command(<<>>, <<>>, <<>>, <<>>, <<>>) }                               \* no letter

Pt(x, y, zn, zd) == [x |-> Q(x, 1), y |-> Q(y, 1), z |-> Q(zn, zd)]

\* The probe point sets tried.
ProbeSets ==
    { <<Pt(0, 0, 1, 10), Pt(4, 0, -1, 20), Pt(2, 4, 0, 1)>>,   \* small heights
      <<Pt(0, 0, 1, 1), Pt(4, 0, -1, 1), Pt(2, 0, 0, 1)>>,      \* heights on a line
      <<Pt(0, 0, 2, 1), Pt(4, 0, -2, 1), Pt(2, 4, 0, 1)>>,      \* large heights
      <<Pt(2, 0, 1, 1), Pt(2, 0, 1, 1)>>,                       \* one position twice
      <<Pt(0, 0, 1, 4), Pt(4, 0, 0, 1), Pt(4, 4, 1, 4), Pt(0, 4, 0, 1), Pt(2, 2, 1, 8)>>,
      <<>> }

FactorCounts == 2 .. MaxLeadscrews

ZDriverCounts == 2 .. MaxLeadscrews

\* What a run meets outside its arguments: whether the solver takes a NaN
\* pivot as usable, and what unwritten storage holds.
Environments == {<<TRUE, Q(0, 1)>>, <<FALSE, Q(7, 1)>>}

\* The first n cells of an array.
Prefix(arr, n) == [i \in 0 .. (n - 1) |-> arr[i]]

\* The values an M671 of Commands can leave in cell i of leadscrewX, leadscrewY.
XCell(i) == {c.X[i + 1] : c \in {d \in Commands : Len(d.X) > i}}

YCell(i) == {c.Y[i + 1] : c \in {d \in Commands : Len(d.Y) > i}}

\* Every (count, X head, Y head) the commands can leave configured.
Geometries ==
    UNION {
        {<<n, lx, ly>> : lx \in {f \in [0 .. (n - 1) -> UNION {XCell(i) : i \in Screws}] :
                                    \A i \in 0 .. (n - 1) : f[i] \in XCell(i)},
                         ly \in {f \in [0 .. (n - 1) -> UNION {YCell(i) : i \in Screws}] :
                                    \A i \in 0 .. (n - 1) : f[i] \in YCell(i)}}
        : n \in 2 .. MaxLeadscrews }

\* The M671 commands of the exact cases: three screws in a triangle, two
\* screws apart.
ExactCommands ==
    { M671Command(Arr(<<0, 200, 100>>), Arr(<<0, 0, 200>>), <<>>, <<>>, <<>>),
      M671Command(Arr(<<0, 0, 4>>), Arr(<<0, 4, 0>>), <<>>, <<>>, <<Q(1, 2)>>),
      M671Command(Arr(<<0, 100>>), Arr(<<0, 0>>), <<>>, <<>>, <<>>),
      M671Command(Arr(<<0, 4>>), Arr(<<2, 0>>), <<Q(1, 2)>>, <<>>, <<>>) }

\* The heights probed at the screws in the exact cases.
ExactHeights ==
    { <<Q(1, 10), Q(-1, 20), Q(0, 1)>>,
      <<Q(1, 1), Q(-1, 1), Q(1, 4)>>,
      <<Q(0, 1), Q(0, 1), Q(0, 1)>>,
      <<Q(-1, 2), Q(-1, 2), Q(-1, 2)>>,
      <<Q(2, 1), Q(0, 1), Q(-3, 1)>>,
      <<Q(-1, 4), Q(1, 8), Q(1, 1)>> }

Half == Q(1, 2)

\* The probe points of an exact case.  Three screws: one point at each
\* screw, with heights h.  Two screws: one point at each screw and one
\* midway between them, with h[1], h[2] and the mean of the two.
ExactProbes(n, lx, ly, h) ==
    IF n = 3
    THEN [i \in 1 .. 3 |-> [x |-> lx[i - 1], y |-> ly[i - 1], z |-> h[i]]]
    ELSE <<[x |-> lx[0], y |-> ly[0], z |-> h[1]],
           [x |-> lx[1], y |-> ly[1], z |-> h[2]],
           [x |-> FMul(Half, FAdd(lx[0], lx[1])), y |-> FMul(Half, FAdd(ly[0], ly[1])),
            z |-> FMul(Half, FAdd(h[1], h[2]))]>>

ExactInputs ==
    {<<<<Len(c.X), [i \in 0 .. (Len(c.X) - 1) |-> c.X[i + 1]],
                   [i \in 0 .. (Len(c.X) - 1) |-> c.Y[i + 1]]>>,
       ExactProbes(Len(c.X), [i \in 0 .. (Len(c.X) - 1) |-> c.X[i + 1]],
                   [i \in 0 .. (Len(c.X) - 1) |-> c.Y[i + 1]], h)>> :
        c \in ExactCommands, h \in ExactHeights}

\* Fit, tabulated once over the geometries and inputs of the model.
FitTable ==
    Tab([k \in ((Geometries \X ProbeSets) \cup ExactInputs) \X Environments |->
            Fit(k[1][1][1], k[1][1][2], k[1][1][3], k[1][2], k[2][1], k[2][2])])

\* Fit, looked up where it is tabulated.
FitOf(numFactors, lx, ly, pp, nanPivotUsable, junk) ==
    LET In(table, k) == IF k \in DOMAIN table THEN table[k]
                        ELSE Fit(numFactors, lx, ly, pp, nanPivotUsable, junk)
    IN  In(FitTable, <<<<<<numFactors, lx, ly>>, pp>>, <<nanPivotUsable, junk>>>>)

\* ----------------------------------------------------------- PrintMonitor
\*
\* Times are in milliseconds.  Of the file being printed only whether it has
\* a name and whether its information has been parsed is kept.

\* Spin collects its statistics when more than this has passed since it last did.
UpdateIntervalMillis == 1

\* A snapshot is taken after this much printing time (SnapshotIntervalSeconds * 1000).
SnapshotIntervalMillis == 3

\* The members after the constructor; those it does not set are written
\* before they are read (by Reset, by StartedPrint, or by Spin together with
\* the flag that guards the read).  printTimeSinceLastSnapshot is the local
\* of Spin, as last computed: the uint32_t holds 2^32 + d for a negative d.
Constructed ==
    [isPrinting |-> FALSE, heatingUp |-> FALSE, paused |-> FALSE,
     printingFileParsed |-> FALSE, hasFilename |-> FALSE,
     currentLayer |-> 0, printStartTime |-> 0, pauseStartTime |-> 0,
     heatingStartedTime |-> 0, lastSnapshotTime |-> 0, lastLayerChangeTime |-> 0,
     totalPauseTime |-> 0, warmUpDuration |-> 0, lastSnapshotNonPrintingTime |-> 0,
     lastLayerChangeNonPrintingTime |-> 0, lastLayerDuration |-> 0,
     lastSnapshotFileFraction |-> 0, lastSnapshotFilamentUsed |-> 0,
     fileProgressRate |-> <<0, 1>>, filamentProgressRate |-> <<0, 1>>,
     whenSlicerTimeLeftSet |-> 0, lastUpdateTime |-> 0,
     printTimeSinceLastSnapshot |-> <<>>]

\* PrintMonitor::Reset
Reset(pm) ==
    [pm EXCEPT !.heatingUp = FALSE, !.paused = FALSE, !.currentLayer = 0,
               !.printStartTime = 0, !.pauseStartTime = 0, !.lastSnapshotTime = 0,
               !.lastLayerChangeTime = 0, !.totalPauseTime = 0, !.warmUpDuration = 0,
               !.lastSnapshotNonPrintingTime = 0, !.lastLayerChangeNonPrintingTime = 0,
               !.lastLayerDuration = 0, !.lastSnapshotFileFraction = 0,
               !.lastSnapshotFilamentUsed = 0, !.fileProgressRate = <<0, 1>>,
               !.filamentProgressRate = <<0, 1>>]

\* The file information block that opens Spin (mass storage, no Linux
\* interface); finished: GetFileInfo returned other than notFinished.
GetFileInfo(pm, finished) ==
    IF pm.hasFilename /\ ~pm.printingFileParsed
    THEN [pm EXCEPT !.printingFileParsed = finished]
    ELSE pm

\* if (!paused) { pauseStartTime = now; paused = true; }
PauseSeen(pm, now) ==
    IF ~pm.paused THEN [pm EXCEPT !.pauseStartTime = now, !.paused = TRUE] ELSE pm

\* if (paused) { totalPauseTime += now - pauseStartTime; ... }
PauseOver(pm, now) ==
    IF pm.paused
    THEN [pm EXCEPT !.totalPauseTime = @ + (now - pm.pauseStartTime),
                    !.whenSlicerTimeLeftSet = @ + (now - pm.pauseStartTime),
                    !.paused = FALSE]
    ELSE pm

\* if (!heatingUp) { heatingUp = true; heatingStartedTime = now; }
HeatingSeen(pm, now) ==
    IF ~pm.heatingUp THEN [pm EXCEPT !.heatingUp = TRUE, !.heatingStartedTime = now] ELSE pm

\* if (heatingUp) { warmUpDuration += now - heatingStartedTime; ... }
HeatingOver(pm, now) ==
    IF pm.heatingUp
    THEN [pm EXCEPT !.warmUpDuration = @ + (now - pm.heatingStartedTime),
                    !.whenSlicerTimeLeftSet = @ + (now - pm.heatingStartedTime),
                    !.heatingUp = FALSE]
    ELSE pm

\* (uint32_t)d >= limit, for a d between -2^31 and 2^31: a negative d
\* wraps to 2^32 + d.
AtLeastAsUint32(d, limit) == d < 0 \/ d >= limit

\* The snapshot: printTimeSinceLastSnapshot from the time since the last
\* snapshot and the non-printing time since then, and a new snapshot when
\* it has reached the interval.  The two rates are kept as
\* <<1000 * progress, printTimeSinceLastSnapshot>>.
Snapshot(pm, now, currentFraction, currentFilamentUsed) ==
    LET Taken(totalNonPrintingTime, printTimeSinceLastSnapshot) ==
            IF AtLeastAsUint32(printTimeSinceLastSnapshot, SnapshotIntervalMillis)
            THEN [pm EXCEPT !.fileProgressRate =
                                <<1000 * (currentFraction - pm.lastSnapshotFileFraction),
                                  printTimeSinceLastSnapshot>>,
                            !.filamentProgressRate =
                                <<1000 * (currentFilamentUsed - pm.lastSnapshotFilamentUsed),
                                  printTimeSinceLastSnapshot>>,
                            !.lastSnapshotFileFraction = currentFraction,
                            !.lastSnapshotFilamentUsed = currentFilamentUsed,
                            !.lastSnapshotNonPrintingTime = totalNonPrintingTime,
                            !.lastSnapshotTime = now,
                            !.printTimeSinceLastSnapshot = <<printTimeSinceLastSnapshot>>]
            ELSE [pm EXCEPT !.printTimeSinceLastSnapshot = <<printTimeSinceLastSnapshot>>]
        Since(totalNonPrintingTime) ==
            Taken(totalNonPrintingTime,
                  (now - pm.lastSnapshotTime)
                    - (totalNonPrintingTime - pm.lastSnapshotNonPrintingTime))
    IN  Since(pm.warmUpDuration + pm.totalPauseTime)

\* The statistics Spin collects; notPaused: GetPauseState() is notPaused.
CollectStats(pm, now, notPaused, isHeatingUp, currentFraction, currentFilamentUsed) ==
    [(IF ~notPaused
      THEN PauseSeen(pm, now)
      ELSE IF isHeatingUp
      THEN HeatingSeen(PauseOver(pm, now), now)
      ELSE Snapshot(HeatingOver(PauseOver(pm, now), now), now,
                    currentFraction, currentFilamentUsed))
     EXCEPT !.lastUpdateTime = now]

\* PrintMonitor::Spin at time now
SpinAt(pm, now, finished, notPaused, isHeatingUp, currentFraction, currentFilamentUsed) ==
    LET After(p) ==
            IF p.hasFilename /\ ~p.printingFileParsed
            THEN p
            ELSE IF p.isPrinting /\ now - p.lastUpdateTime > UpdateIntervalMillis
            THEN CollectStats(p, now, notPaused, isHeatingUp,
                              currentFraction, currentFilamentUsed)
            ELSE p
    IN  After(GetFileInfo(pm, finished))

\* No M671 in progress.
Idle == [at |-> "idle"]

\* ------------------------------------------------------------------- Init

\* The constructors set numLeadscrews, correctionFactor, maxCorrection and
\* screwPitch; the three arrays are left as allocated.
Init ==
    /\ numLeadscrews = 0
    /\ correctionFactor = Q(1, 1)
    /\ maxCorrection = Q(1, 1)
    /\ screwPitch = M3ScrewPitch
    /\ \E j \in Junk :
        /\ leadscrewX = [i \in Screws |-> j]
        /\ leadscrewY = [i \in Screws |-> j]
        /\ lastCorrections = [i \in Screws |-> j]
    /\ initialDeviation = DeviationSet(Zero, Zero, 1)
    /\ latestDeviation = [deviation |-> DeviationSet(Zero, Zero, 1), numFactors |-> 0]
    /\ adjustCalls = <<>>
    /\ call = [op |-> "none"]
    /\ nOps = 0
    /\ writer = Idle
    /\ observed = <<>>
    /\ printMonitor = Reset(Constructed)
    /\ millis64 = 0

\* -------------------------------------------------------------- Configure

\* GetFloatArray(arr, size, false): the values given overwrite the head of arr.
GetFloatArray(arr, given) ==
    [i \in Screws |-> IF i < Len(given) THEN given[i + 1] ELSE arr[i]]

\* TryGetFValue(letter, field, seen)
TryGetFValue(field, given) == IF given = <<>> THEN field ELSE given[1]

\* CoordinatesAccepted comparing the sizes only.
CoordinatesAcceptedBySize(seenX, seenY, xSize, ySize) == xSize = ySize

\* The test that accepts the coordinates of an M671.
CoordinatesAccepted(seenX, seenY, xSize, ySize) == seenX /\ seenY /\ xSize = ySize

\* The size GetFloatArray leaves for a letter: that of the values given; a
\* letter not given leaves MaxLeadscrews.
SizeOf(given) == IF given = <<>> THEN MaxLeadscrews ELSE Len(given)

\* Accepted testing only that X was given.
AcceptedWithX(X, Y) == X # <<>>

\* Whether an M671 with these X and Y takes the branch that sets the count.
Accepted(X, Y) == CoordinatesAccepted(X # <<>>, Y # <<>>, SizeOf(X), SizeOf(Y))

\* ResetCorrections outside the test of the coordinates.
ResetCorrectionsAlways(accepted, lastCorr) == [i \in Screws |-> Zero]

\* lastCorrections[] after Configure: every element 0.0 when the coordinates
\* are accepted.
ResetCorrections(accepted, lastCorr) ==
    IF accepted THEN [i \in Screws |-> Zero] ELSE lastCorr

\* What Configure returns and replies after its reads of the command, as a
\* record; the last two branches report the configuration as it stands.
ConfigureReturn(X, Y, S, P, F) ==
    LET seenX == X # <<>>
        seenY == Y # <<>>
        seenPFS == S # <<>> \/ P # <<>> \/ F # <<>>
        done == [op |-> "Configure", seenX |-> seenX, seenY |-> seenY,
                 xSize |-> SizeOf(X), ySize |-> SizeOf(Y), seenPFS |-> seenPFS,
                 X |-> X, Y |-> Y, S |-> S, P |-> P, F |-> F]
    IN  IF Accepted(X, Y)
        THEN done @@ [ret |-> FALSE, reply |-> NoReply, moveUpdated |-> TRUE]
        ELSE IF seenX \/ seenY
        THEN done @@ [ret |-> TRUE, moveUpdated |-> FALSE,
                      reply |-> [text |-> "Specify 1, 2, 3 or 4 X and Y coordinates in M671",
                                 values |-> <<>>]]
        ELSE IF seenPFS
        THEN done @@ [ret |-> TRUE, reply |-> NoReply, moveUpdated |-> TRUE]
        ELSE IF numLeadscrews < 2
        THEN done @@ [ret |-> FALSE, moveUpdated |-> FALSE,
                      reply |-> [text |-> "Z leadscrew coordinates are not configured",
                                 values |-> <<>>]]
        ELSE done @@ [ret |-> FALSE, moveUpdated |-> FALSE,
                      reply |-> [text |-> "Z leadscrew coordinates",
                                 values |-> <<[i \in 1 .. numLeadscrews |->
                                                 <<Fmt(leadscrewX[i - 1], 10),
                                                   Fmt(leadscrewY[i - 1], 10)>>],
                                              Fmt(correctionFactor, 100),
                                              Fmt(maxCorrection, 100),
                                              Fmt(screwPitch, 100)>>]]

\* M671 on a kinematics other than CoreXZ, with the letters X, Y, S, P, F as given.
Configure(X, Y, S, P, F) ==
    /\ nOps < MaxOps
    /\ nOps' = nOps + 1
    /\ leadscrewX' = GetFloatArray(leadscrewX, X)
    /\ leadscrewY' = GetFloatArray(leadscrewY, Y)
    /\ maxCorrection' = TryGetFValue(maxCorrection, S)
    /\ screwPitch' = TryGetFValue(screwPitch, P)
    /\ correctionFactor' = TryGetFValue(correctionFactor, F)
    /\ lastCorrections' = ResetCorrections(Accepted(X, Y), lastCorrections)
    /\ numLeadscrews' = IF Accepted(X, Y) THEN SizeOf(X) ELSE numLeadscrews
    /\ call' = ConfigureReturn(X, Y, S, P, F)
    /\ UNCHANGED <<initialDeviation, latestDeviation, adjustCalls, writer, observed, printMonitor, millis64>>

\* ------------------------------------------------------ DoAutoCalibration

\* Whether a run returns at one of the two checks that open the function.
StopsEarly(numFactors) ==
    ~SupportsAutoCalibration(numLeadscrews) \/ FactorCountMismatch(numFactors, numLeadscrews)

\* A run whose numerical part comes out as fit.
Calibrate(fit, numFactors, pp, numZDrivers) ==
    \E r \in {RunOutcome(fit, numLeadscrews, correctionFactor, maxCorrection, screwPitch,
                         lastCorrections, numFactors, pp, numZDrivers)} :
        /\ nOps < MaxOps
        /\ nOps' = nOps + 1
        /\ lastCorrections' = r.lastCorrections
        /\ adjustCalls' = adjustCalls \o r.adjust
        /\ initialDeviation' = IF r.initial = <<>> THEN initialDeviation
                               ELSE r.initial[Len(r.initial)]
        /\ latestDeviation' = IF r.latest = <<>> THEN latestDeviation
                              ELSE r.latest[Len(r.latest)]
        /\ call' = [op |-> "DoAutoCalibration", numFactors |-> numFactors,
                    numLeadscrews |-> numLeadscrews,
                    numZDrivers |-> numZDrivers, solved |-> r.solved,
                    ret |-> r.ret, reply |-> r.reply, logged |-> r.logged,
                    steps |-> r.steps, pp |-> r.pp, solution |-> r.solution,
                    scaled |-> r.scaled, residuals |-> r.residuals,
                    finalDeviation |-> r.finalDeviation,
                    adjust |-> r.adjust, initial |-> r.initial, latest |-> r.latest,
                    rowsWritten |-> r.rowsWritten, rowsRead |-> r.rowsRead,
                    counts |-> r.counts]
        /\ UNCHANGED <<numLeadscrews, leadscrewX, leadscrewY, correctionFactor,
                       maxCorrection, screwPitch, writer, observed, printMonitor, millis64>>

\* DoAutoCalibration(numFactors, probePoints, reply) with numZDrivers Z drivers
\* on the platform; junk is what unwritten storage holds during the run.
DoAutoCalibration(numFactors, pp, numZDrivers, nanPivotUsable, junk) ==
    Calibrate(IF StopsEarly(numFactors) THEN <<>>
              ELSE FitOf(numFactors, Prefix(leadscrewX, numFactors),
                         Prefix(leadscrewY, numFactors), pp, nanPivotUsable, junk),
              numFactors, pp, numZDrivers)

M671 == \E c \in Commands : Configure(c.X, c.Y, c.S, c.P, c.F)

\* A run that stops early reads neither its probe points nor any storage:
\* one choice of them is tried.
G32 ==
    \E numFactors \in FactorCounts, numZDrivers \in ZDriverCounts :
        \E pp \in (IF StopsEarly(numFactors) THEN {<<>>} ELSE ProbeSets),
           e \in (IF StopsEarly(numFactors) THEN {<<TRUE, Zero>>} ELSE Environments) :
            DoAutoCalibration(numFactors, pp, numZDrivers, e[1], e[2])

Next == M671 \/ G32

Spec == Init /\ [][Next]_vars

\* ------------------------------------------------------- the exact cases

M671Exact == \E c \in ExactCommands : Configure(c.X, c.Y, c.S, c.P, c.F)

\* A run on probe points that the configured screws can meet exactly.
G32Exact ==
    /\ numLeadscrews \in {2, 3}
    /\ \E h \in ExactHeights, numZDrivers \in ZDriverCounts, e \in Environments :
            DoAutoCalibration(numLeadscrews,
                              ExactProbes(numLeadscrews, leadscrewX, leadscrewY, h),
                              numZDrivers, e[1], e[2])

NextExact == M671Exact \/ G32Exact

SpecExact == Init /\ [][NextExact]_vars

\* ------------------------------------------- M671 beside a reader
\*
\* The object model functions take no lock ("no lock needed") and Configure
\* takes none either, so a reader in another task may run between any two
\* writes of Configure.  Configure is taken here in the order of its writes.

\* The M671 commands tried beside a reader.
ReaderCommands ==
    { M671Command(Arr(<<0, 4>>), Arr(<<0, 0>>), <<>>, <<>>, <<>>),
      M671Command(Arr(<<1, 5, 3>>), Arr(<<1, 1, 5>>),
                  <<Q(1, 2)>>, <<Q(1, 1)>>, <<Q(1, 2)>>),
      M671Command(Arr(<<0, 4, 2>>), Arr(<<0, 0>>), <<>>, <<>>, <<>>),
      M671Command(<<>>, <<>>, <<Q(2, 1)>>, <<>>, <<Q(1, 2)>>) }

\* What the object model functions of tiltCorrection return when all are
\* called at one moment: screwX and screwY have numLeadscrews elements.
Reported ==
    [numLeadscrews |-> numLeadscrews,
     screwX |-> Prefix(leadscrewX, numLeadscrews),
     screwY |-> Prefix(leadscrewY, numLeadscrews),
     correctionFactor |-> correctionFactor,
     maxCorrection |-> maxCorrection,
     screwPitch |-> screwPitch]

\* Configure as far as its read of X.
ConfigureX(c) ==
    /\ writer = Idle
    /\ nOps < MaxOps
    /\ leadscrewX' = GetFloatArray(leadscrewX, c.X)
    /\ writer' = [at |-> "Y", c |-> c, before |-> Reported]
    /\ UNCHANGED <<numLeadscrews, leadscrewY, correctionFactor, maxCorrection, screwPitch,
                   lastCorrections, initialDeviation, latestDeviation, adjustCalls,
                   call, nOps, observed, printMonitor, millis64>>

\* Its read of Y.
ConfigureY ==
    /\ writer.at = "Y"
    /\ leadscrewY' = GetFloatArray(leadscrewY, writer.c.Y)
    /\ writer' = [writer EXCEPT !.at = "SPF"]
    /\ UNCHANGED <<numLeadscrews, leadscrewX, correctionFactor, maxCorrection, screwPitch,
                   lastCorrections, initialDeviation, latestDeviation, adjustCalls,
                   call, nOps, observed, printMonitor, millis64>>

\* Its reads of S, P and F.
ConfigureSPF ==
    /\ writer.at = "SPF"
    /\ maxCorrection' = TryGetFValue(maxCorrection, writer.c.S)
    /\ screwPitch' = TryGetFValue(screwPitch, writer.c.P)
    /\ correctionFactor' = TryGetFValue(correctionFactor, writer.c.F)
    /\ writer' = [writer EXCEPT !.at = "end"]
    /\ UNCHANGED <<numLeadscrews, leadscrewX, leadscrewY, lastCorrections,
                   initialDeviation, latestDeviation, adjustCalls, call, nOps, observed, printMonitor, millis64>>

\* The rest of it: lastCorrections and numLeadscrews when the coordinates
\* are accepted, and the reply.
ConfigureEnd ==
    /\ writer.at = "end"
    /\ lastCorrections' = ResetCorrections(Accepted(writer.c.X, writer.c.Y), lastCorrections)
    /\ numLeadscrews' = IF Accepted(writer.c.X, writer.c.Y) THEN SizeOf(writer.c.X)
                        ELSE numLeadscrews
    /\ call' = ConfigureReturn(writer.c.X, writer.c.Y, writer.c.S, writer.c.P, writer.c.F)
    /\ nOps' = nOps + 1
    /\ writer' = Idle
    /\ UNCHANGED <<leadscrewX, leadscrewY, correctionFactor, maxCorrection, screwPitch,
                   initialDeviation, latestDeviation, adjustCalls, observed, printMonitor, millis64>>

\* A reader calls the object model functions; what Configure was doing at
\* that moment is kept with what the reader got.
ReportObjectModel ==
    /\ observed' = <<[seen |-> Reported, during |-> writer]>>
    /\ UNCHANGED <<numLeadscrews, leadscrewX, leadscrewY, correctionFactor, maxCorrection,
                   screwPitch, lastCorrections, initialDeviation, latestDeviation,
                   adjustCalls, call, nOps, writer, printMonitor, millis64>>

NextReader ==
    \/ \E c \in ReaderCommands : ConfigureX(c)
    \/ ConfigureY
    \/ ConfigureSPF
    \/ ConfigureEnd
    \/ ReportObjectModel

SpecReader == Init /\ [][NextReader]_vars

\* ------------------------------------------------- the PrintMonitor alone

\* The clock stops here.
MaxMillis == 8

\* What the PrintMonitor does not touch.
kinematics == <<numLeadscrews, leadscrewX, leadscrewY, correctionFactor, maxCorrection,
                screwPitch, lastCorrections, initialDeviation, latestDeviation,
                adjustCalls, call, nOps, writer, observed>>

\* (FractionOfFilePrinted() in percent, GetTotalRawExtrusion()) as Spin may find them.
Progress == {<<0, 0>>, <<50, 10>>}

\* A millisecond passes.
Tick ==
    /\ millis64 < MaxMillis
    /\ millis64' = millis64 + 1
    /\ UNCHANGED <<kinematics, printMonitor>>

\* PrintMonitor::StartingPrint; finished: GetFileInfo returned other than
\* notFinished, and UpdatePrintingFileInfo sets printingFileParsed.
StartingPrint(finished) ==
    /\ printMonitor' = [printMonitor EXCEPT !.hasFilename = TRUE,
                                            !.printingFileParsed = @ \/ finished]
    /\ UNCHANGED <<kinematics, millis64>>

\* PrintMonitor::StartedPrint; SetLayerNumber(0) finds currentLayer at 0.
StartedPrint ==
    /\ printMonitor' = [Reset(printMonitor) EXCEPT !.isPrinting = TRUE,
                                                   !.printStartTime = millis64,
                                                   !.lastSnapshotTime = millis64,
                                                   !.whenSlicerTimeLeftSet = millis64]
    /\ UNCHANGED <<kinematics, millis64>>

\* PrintMonitor::StoppedPrint
StoppedPrint ==
    /\ printMonitor' = [Reset(printMonitor) EXCEPT !.isPrinting = FALSE,
                                                   !.printingFileParsed = FALSE]
    /\ UNCHANGED <<kinematics, millis64>>

\* PrintMonitor::Spin, with what it finds in MassStorage and GCodes.
Spin ==
    \E finished \in BOOLEAN, notPaused \in BOOLEAN, isHeatingUp \in BOOLEAN,
       progress \in Progress :
        /\ printMonitor' = SpinAt(printMonitor, millis64, finished, notPaused, isHeatingUp,
                                  progress[1], progress[2])
        /\ UNCHANGED <<kinematics, millis64>>

NextPrintMonitor ==
    \/ Tick
    \/ \E finished \in BOOLEAN : StartingPrint(finished)
    \/ StartedPrint
    \/ StoppedPrint
    \/ Spin

SpecPrintMonitor == Init /\ [][NextPrintMonitor]_vars

\* ------------------------------------------------------------- properties

Run == "DoAutoCalibration"

Common == <<"derivatives", "publish", "normal", "solve", "residuals", "check">>

\* C1: a run made while the number of Z drivers differs from the number of
\* leadscrews never calls Move::AdjustLeadscrews, whatever the corrections.
ManualFallbackIsolation ==
    [][(call'.op = Run /\ call'.numZDrivers # numLeadscrews)
        => adjustCalls' = adjustCalls]_vars

\* A manual run whose corrections exceed the limit.
ManualFallbackSeen ==
    /\ call.op = Run
    /\ call.numZDrivers # call.numLeadscrews
    /\ call.steps = Common \o <<"manual">>
    /\ \E i \in DOMAIN call.scaled : FGt(fabsf(call.scaled[i]), maxCorrection)
    /\ call.adjust = <<>>

\* C2: when the solve succeeds without NaN and the Z driver count equals the
\* leadscrew count, the corrections are applied if and only if every
\* solution[i] * correctionFactor has magnitude <= maxCorrection; otherwise
\* AdjustLeadscrews is not called and the run returns failure.
LimitGate ==
    [][(/\ call'.op = Run
        /\ call'.solved = <<TRUE>>
        /\ \A i \in DOMAIN call'.solution : ~isnan(call'.solution[i])
        /\ call'.numZDrivers = numLeadscrews)
        => LET scaled == [i \in DOMAIN call'.solution |->
                            FMul(call'.solution[i], correctionFactor)]
               within == \A i \in DOMAIN scaled : ~FGt(fabsf(scaled[i]), maxCorrection)
           IN  /\ within => (adjustCalls' = Append(adjustCalls, scaled) /\ call'.ret = FALSE)
               /\ ~within => (adjustCalls' = adjustCalls /\ call'.ret = TRUE)]_vars

\* A run refused at the limit with a Z driver for every leadscrew.
LimitGateSeen ==
    /\ call.op = Run
    /\ call.numZDrivers = call.numLeadscrews
    /\ call.steps = Common \o <<"limit">>
    /\ call.ret = TRUE
    /\ \E i \in DOMAIN call.solution :
        FGt(fabsf(FMul(call.solution[i], correctionFactor)), maxCorrection)

\* C3: a run whose solved vector holds a NaN returns failure and does not call
\* AdjustLeadscrews, whatever the Z driver count and the other components.
NaNRejection ==
    [][(/\ call'.op = Run
        /\ call'.solved = <<TRUE>>
        /\ \E i \in DOMAIN call'.solution : isnan(call'.solution[i]))
        => (call'.ret = TRUE /\ adjustCalls' = adjustCalls)]_vars

\* A NaN solution on a machine with a Z driver for every leadscrew.
NaNRejectionSeen ==
    /\ call.op = Run
    /\ call.solved = <<TRUE>>
    /\ \E i \in DOMAIN call.solution : isnan(call.solution[i])
    /\ call.numZDrivers = call.numLeadscrews
    /\ call.ret = TRUE

\* C4: a run whose GaussJordan fails returns failure, does not call
\* AdjustLeadscrews and stops there: no residuals, no check of the
\* corrections, no manual corrections.
SingularDetection ==
    [][(call'.op = Run /\ call'.solved = <<FALSE>>)
        => /\ call'.ret = TRUE
           /\ adjustCalls' = adjustCalls
           /\ lastCorrections' = lastCorrections
           /\ call'.steps = <<"derivatives", "publish", "normal", "solve">>
           /\ call'.residuals = <<>>
           /\ call'.logged = FALSE]_vars

\* A solver failure on two probe points at one position, screws apart.
SingularDetectionSeen ==
    /\ call.op = Run
    /\ call.solved = <<FALSE>>
    /\ Len(call.pp) = 2
    /\ call.pp[1] = call.pp[2]
    /\ <<leadscrewX[0], leadscrewY[0]>> # <<leadscrewX[1], leadscrewY[1]>>
    /\ call.ret = TRUE

\* C5: with at least 2 leadscrews configured, a run whose numFactors differs
\* from the leadscrew count returns failure before anything is computed: no
\* probe point is read, no deviation is published, the solver does not run
\* and AdjustLeadscrews is not called.
FactorCountMismatchFirst ==
    [][(call'.op = Run /\ numLeadscrews >= 2 /\ call'.numFactors # numLeadscrews)
        => /\ call'.ret = TRUE
           /\ call'.pp = <<>>
           /\ call'.steps = <<>>
           /\ call'.solved = <<>>
           /\ call'.initial = <<>>
           /\ call'.latest = <<>>
           /\ UNCHANGED <<initialDeviation, latestDeviation, adjustCalls,
                          lastCorrections>>]_vars

\* A run refused for its factor count.
FactorCountMismatchSeen ==
    /\ call.op = Run
    /\ call.numLeadscrews >= 2
    /\ call.numFactors # call.numLeadscrews
    /\ call.ret = TRUE
    /\ call.reply.values = <<call.numFactors, call.numLeadscrews>>

\* C6: a run requested while fewer than 2 leadscrews are configured is
\* refused before anything is computed and reported as a failure: the
\* function returns true and the reply holds a message.
TooFewLeadscrewsReported ==
    (call.op = Run /\ call.numLeadscrews < 2)
        => (call.ret = TRUE /\ call.reply # NoReply /\ call.steps = <<>>)

\* C7: an M671 whose X and Y lists differ in length, or that gives only one
\* of X and Y, changes none of the stored positions, the leadscrew count,
\* screwPitch, correctionFactor, maxCorrection and lastCorrections, also
\* when S, P or F come with it.
BadCoordinatesNoMutation ==
    [][(/\ call'.op = "Configure"
        /\ (call'.seenX \/ call'.seenY)
        /\ ~(call'.seenX /\ call'.seenY /\ call'.xSize = call'.ySize))
        => UNCHANGED <<leadscrewX, leadscrewY, numLeadscrews, screwPitch,
                       correctionFactor, maxCorrection, lastCorrections>>]_vars

\* C8: an M671 with neither X nor Y changes exactly the ones of
\* maxCorrection, screwPitch and correctionFactor that it gives, and leaves
\* the positions, the leadscrew count and lastCorrections as they were; with
\* no letter at all it changes nothing.
PartialReconfiguration ==
    [][(call'.op = "Configure" /\ ~call'.seenX /\ ~call'.seenY)
        => /\ UNCHANGED <<leadscrewX, leadscrewY, numLeadscrews, lastCorrections,
                          initialDeviation, latestDeviation, adjustCalls>>
           /\ maxCorrection' = (IF call'.S = <<>> THEN maxCorrection ELSE call'.S[1])
           /\ screwPitch' = (IF call'.P = <<>> THEN screwPitch ELSE call'.P[1])
           /\ correctionFactor' = (IF call'.F = <<>> THEN correctionFactor
                                   ELSE call'.F[1])]_vars

\* An M671 S0.5 given to three configured leadscrews.
PartialReconfigurationSeen ==
    /\ call.op = "Configure"
    /\ ~call.seenX /\ ~call.seenY
    /\ call.S = <<Q(1, 2)>> /\ call.P = <<>> /\ call.F = <<>>
    /\ maxCorrection = Q(1, 2)
    /\ screwPitch = M3ScrewPitch
    /\ correctionFactor = One
    /\ numLeadscrews = 3
    /\ leadscrewX[2] = Q(2, 1)

\* Three screws not on one line, probed once at each screw.
ExactCase3 ==
    /\ call.op = Run
    /\ call.numFactors = 3
    /\ Len(call.pp) = 3
    /\ \A i \in 0 .. 2 : /\ call.pp[i + 1].x = leadscrewX[i]
                         /\ call.pp[i + 1].y = leadscrewY[i]
    /\ FSub(FMul(FSub(leadscrewX[1], leadscrewX[0]), FSub(leadscrewY[2], leadscrewY[0])),
            FMul(FSub(leadscrewX[2], leadscrewX[0]), FSub(leadscrewY[1], leadscrewY[0])))
         # Zero

\* Two screws apart, probed at each screw and midway between them, the
\* middle height being the mean of the other two.
ExactCase2 ==
    /\ call.op = Run
    /\ call.numFactors = 2
    /\ Len(call.pp) = 3
    /\ \A i \in 0 .. 1 : /\ call.pp[i + 1].x = leadscrewX[i]
                         /\ call.pp[i + 1].y = leadscrewY[i]
    /\ call.pp[3].x = FMul(Half, FAdd(leadscrewX[0], leadscrewX[1]))
    /\ call.pp[3].y = FMul(Half, FAdd(leadscrewY[0], leadscrewY[1]))
    /\ call.pp[3].z = FMul(Half, FAdd(call.pp[1].z, call.pp[2].z))
    /\ <<leadscrewX[0], leadscrewY[0]>> # <<leadscrewX[1], leadscrewY[1]>>

\* The height probed at each screw.
HeightAtScrew == [i \in 0 .. (call.numFactors - 1) |-> call.pp[i + 1].z]

\* C9, as amended: in the 3-screw and the 2-screw exact case the solve
\* succeeds and the solved correction for screw i equals the height probed
\* at screw i: (h0, h1, h2), and (1, -1) for heights 1, -1, 0.
ExactRecovery ==
    (ExactCase3 \/ ExactCase2)
        => (call.solved = <<TRUE>> /\ call.solution = HeightAtScrew)

\* C9, as stated: in those cases the solved correction for screw i equals
\* the negated height at screw i: (-h0, -h1, -h2), and (-1, 1).
ExactRecoveryNegated ==
    (ExactCase3 \/ ExactCase2)
        => (call.solved = <<TRUE>>
            /\ call.solution = [i \in DOMAIN HeightAtScrew |-> FNeg(HeightAtScrew[i])])

\* Screws at (0,0), (200,0), (100,200) probed at 0.10, -0.05, 0.00.
ExactRecoverySeen ==
    /\ ExactCase3
    /\ leadscrewX[1] = Q(200, 1) /\ leadscrewY[2] = Q(200, 1)
    /\ HeightAtScrew = [i \in 0 .. 2 |-> <<Q(1, 10), Q(-1, 20), Q(0, 1)>>[i + 1]]
    /\ call.solution = HeightAtScrew

\* C10: in the 3-screw and the 2-screw exact case the residual is 0 at every
\* probe point, and the final deviation has mean 0 and RMS 0.
ZeroResiduals ==
    (ExactCase3 \/ ExactCase2)
        => /\ DOMAIN call.residuals = 1 .. Len(call.pp)
           /\ \A i \in DOMAIN call.residuals : call.residuals[i] = Zero
           /\ call.finalDeviation.mean = Zero
           /\ call.finalDeviation.deviationSq = Zero

\* Screws at (0,0), (100,0) probed at x = 0, 100, 50 with heights 1, -1, 0.
ZeroResidualsSeen ==
    /\ ExactCase2
    /\ leadscrewX[1] = Q(100, 1)
    /\ call.pp[1].z = Q(1, 1) /\ call.pp[2].z = Q(-1, 1) /\ call.pp[3].z = Zero
    /\ call.residuals = <<Zero, Zero, Zero>>
    /\ call.finalDeviation.deviationSq = Zero

\* A run refused at the NaN check or, with a Z driver for every leadscrew,
\* at the limit.
RefusedAtGate ==
    /\ call.op = Run
    /\ call.solved = <<TRUE>>
    /\ call.ret = TRUE
    /\ \/ \E i \in DOMAIN call.solution : isnan(call.solution[i])
       \/ /\ call.numZDrivers = call.numLeadscrews
          /\ \E i \in DOMAIN call.solution :
                FGt(fabsf(FMul(call.solution[i], correctionFactor)), maxCorrection)

\* C11, as amended: on a run refused at the NaN check or at the limit, every
\* correction value in the reply is the solver's correction multiplied by
\* correctionFactor, printed with 3 decimals.
ReportedScaled ==
    RefusedAtGate
        => call.reply.values =
            [i \in 1 .. call.numLeadscrews |->
                Fmt(FMul(call.solution[i - 1], correctionFactor), 1000)]

\* C11, as stated: on such a run every correction value in the reply is the
\* solver's correction before the multiplication by correctionFactor.
ReportedUnscaled ==
    RefusedAtGate
        => call.reply.values =
            [i \in 1 .. call.numLeadscrews |-> Fmt(call.solution[i - 1], 1000)]

\* A run refused at the limit with correctionFactor 0.5: the reply holds
\* half of what the solver computed.
ReportedScaledSeen ==
    /\ RefusedAtGate
    /\ correctionFactor = Q(1, 2)
    /\ \A i \in DOMAIN call.solution : ~isnan(call.solution[i])
    /\ \E i \in 1 .. call.numLeadscrews :
        /\ call.reply.values[i] = Fmt(FMul(call.solution[i - 1], Q(1, 2)), 1000)
        /\ call.reply.values[i] # Fmt(call.solution[i - 1], 1000)

\* C12: a run that passes every check (solved, no NaN, as many Z drivers as
\* leadscrews, every solution[i] * correctionFactor within maxCorrection)
\* calls AdjustLeadscrews exactly once, with solution[i] * correctionFactor;
\* lastCorrections[i] is then that value for every configured leadscrew, the
\* deviation of the residuals is published as the latest deviation, and the
\* run returns false (not failed).
ApplyAndRecord ==
    [][(/\ call'.op = Run
        /\ call'.solved = <<TRUE>>
        /\ \A i \in DOMAIN call'.solution : ~isnan(call'.solution[i])
        /\ call'.numZDrivers = numLeadscrews
        /\ \A i \in DOMAIN call'.solution :
            ~FGt(fabsf(FMul(call'.solution[i], correctionFactor)), maxCorrection))
        => LET applied == [i \in DOMAIN call'.solution |->
                            FMul(call'.solution[i], correctionFactor)]
           IN  /\ adjustCalls' = Append(adjustCalls, applied)
               /\ \A i \in 0 .. (numLeadscrews - 1) : lastCorrections'[i] = applied[i]
               /\ latestDeviation' = [deviation |-> FinalDeviation(call'.residuals),
                                      numFactors |-> call'.numFactors]
               /\ call'.ret = FALSE]_vars

\* Corrections (0.1, -0.05, 0) applied with correctionFactor 0.5.
ApplyAndRecordSeen ==
    /\ call.op = Run
    /\ call.steps = Common \o <<"apply">>
    /\ call.ret = FALSE
    /\ correctionFactor = Q(1, 2)
    /\ call.solution = [i \in 0 .. 2 |-> <<Q(1, 10), Q(-1, 20), Q(0, 1)>>[i + 1]]
    /\ adjustCalls = <<[i \in 0 .. 2 |-> <<Q(1, 20), Q(-1, 40), Q(0, 1)>>[i + 1]]>>
    /\ \A i \in 0 .. 2 : lastCorrections[i] = adjustCalls[1][i]
    /\ latestDeviation.numFactors = 3

\* C13: a run that returns true (failed: factor count, solver, NaN, limit)
\* leaves the positions, the leadscrew count, screwPitch, correctionFactor,
\* maxCorrection and lastCorrections as they were before it.
FailuresAreLocal ==
    [][(call'.op = Run /\ call'.ret = TRUE)
        => UNCHANGED <<leadscrewX, leadscrewY, numLeadscrews, screwPitch,
                       correctionFactor, maxCorrection, lastCorrections>>]_vars

\* A run refused at the limit after a run that moved the motors: the
\* corrections recorded by the earlier run are still there.
FailuresAreLocalSeen ==
    /\ call.op = Run
    /\ call.ret = TRUE
    /\ call.steps = Common \o <<"limit">>
    /\ Len(adjustCalls) = 1
    /\ \A i \in 0 .. (numLeadscrews - 1) : lastCorrections[i] = adjustCalls[1][i]
    /\ lastCorrections[0] # Zero

\* What the object model functions return once an M671 c that began at
\* before has returned.
ReportedAfter(before, c) ==
    IF Accepted(c.X, c.Y)
    THEN [numLeadscrews |-> Len(c.X),
          screwX |-> [i \in 0 .. (Len(c.X) - 1) |-> c.X[i + 1]],
          screwY |-> [i \in 0 .. (Len(c.Y) - 1) |-> c.Y[i + 1]],
          correctionFactor |-> IF c.F = <<>> THEN before.correctionFactor ELSE c.F[1],
          maxCorrection |-> IF c.S = <<>> THEN before.maxCorrection ELSE c.S[1],
          screwPitch |-> IF c.P = <<>> THEN before.screwPitch ELSE c.P[1]]
    ELSE [numLeadscrews |-> before.numLeadscrews,
          screwX |-> [i \in DOMAIN before.screwX |->
                        IF i < Len(c.X) THEN c.X[i + 1] ELSE before.screwX[i]],
          screwY |-> [i \in DOMAIN before.screwY |->
                        IF i < Len(c.Y) THEN c.Y[i + 1] ELSE before.screwY[i]],
          correctionFactor |-> IF c.F = <<>> THEN before.correctionFactor ELSE c.F[1],
          maxCorrection |-> IF c.S = <<>> THEN before.maxCorrection ELSE c.S[1],
          screwPitch |-> IF c.P = <<>> THEN before.screwPitch ELSE c.P[1]]

\* C14: what a reader of the object model gets while an M671 is in progress
\* is the configuration as it was before that M671 or as it is after it,
\* never a mix of the two (new X with old Y, new positions with the old
\* count).
ReaderSeesWholeConfiguration ==
    \A k \in DOMAIN observed :
        observed[k].during # Idle
            => observed[k].seen \in {observed[k].during.before,
                                     ReportedAfter(observed[k].during.before,
                                                   observed[k].during.c)}

\* An M671 that returned as one whose coordinates were accepted.
ReturnedAccepted == call.op = "Configure" /\ call.ret = FALSE /\ call.moveUpdated

\* C15, as amended: in every reachable state the leadscrew count is 0 or 1
\* (cleared) or between 2 and MaxLeadscrews, and an M671 that set it gave
\* that many X and that many Y positions.
LeadscrewCount ==
    /\ numLeadscrews \in 0 .. MaxLeadscrews
    /\ ReturnedAccepted => (Len(call.X) = numLeadscrews /\ Len(call.Y) = numLeadscrews)

\* C15, as stated: the count is 0 or between 2 and MaxLeadscrews, with as
\* many X as Y positions.
LeadscrewCountNeverOne ==
    /\ numLeadscrews \in {0} \cup (2 .. MaxLeadscrews)
    /\ ReturnedAccepted => (Len(call.X) = numLeadscrews /\ Len(call.Y) = numLeadscrews)

\* One pair of coordinates given after three leadscrews were configured,
\* then a run: the count is 1 and the run does nothing.
LeadscrewCountSeen ==
    /\ numLeadscrews = 1
    /\ call.op = Run
    /\ call.steps = <<>>
    /\ call.ret = FALSE
    /\ leadscrewX[2] = Q(2, 1)

\* A run that moved the motors or asked for manual corrections.
RanToCorrections == call.op = Run /\ call.solved = <<TRUE>> /\ call.ret = FALSE

\* C16, as amended: lastCorrections changes only in a run that moves the
\* motors or asks for manual corrections, and in an M671 whose coordinates
\* are accepted, which sets every element to 0; no failed run, and no M671
\* without accepted coordinates, changes any element.
SnapshotPersists ==
    [][lastCorrections' # lastCorrections
        => \/ RanToCorrections'
           \/ /\ ReturnedAccepted'
              /\ lastCorrections' = [i \in Screws |-> Zero]]_vars

\* C16, as stated: lastCorrections changes only in a run that moves the
\* motors or asks for manual corrections; no M671 changes it.
SnapshotPersistsOverM671 ==
    [][lastCorrections' # lastCorrections => RanToCorrections']_vars

\* An M671 with coordinates after a run that moved the motors: what the run
\* recorded is gone.
SnapshotPersistsSeen ==
    /\ ReturnedAccepted
    /\ Len(adjustCalls) = 1
    /\ adjustCalls[1][0] # Zero
    /\ lastCorrections = [i \in Screws |-> Zero]

\* C17: in a run that ends in manual corrections (solved, no NaN, Z driver
\* count other than the leadscrew count) the value recorded in
\* lastCorrections[i] and reported for leadscrew i is
\* solution[i] * correctionFactor - solution[0] * correctionFactor, reported
\* as turns of screwPitch, a direction and millimetres; lastCorrections[0]
\* is 0.
ManualValues ==
    (/\ call.op = Run
     /\ call.solved = <<TRUE>>
     /\ \A i \in DOMAIN call.solution : ~isnan(call.solution[i])
     /\ call.numZDrivers # call.numLeadscrews)
        => LET net == [i \in 0 .. (call.numLeadscrews - 1) |->
                        FSub(FMul(call.solution[i], correctionFactor),
                             FMul(call.solution[0], correctionFactor))]
           IN  /\ \A i \in DOMAIN net : lastCorrections[i] = net[i]
               /\ lastCorrections[0] = Zero
               /\ call.reply.values =
                    [i \in 1 .. call.numLeadscrews |->
                        [turns |-> Fmt(FDiv(fabsf(net[i - 1]), screwPitch), 100),
                         dir |-> IF FGt(net[i - 1], Zero) THEN "down" ELSE "up",
                         mm |-> Fmt(net[i - 1], 100)]]

\* Manual corrections for solved (0.1, -0.05, 0) with correctionFactor 0.5
\* and screwPitch 1: 0, -0.075 and -0.05 are recorded.
ManualValuesSeen ==
    /\ call.op = Run
    /\ call.steps = Common \o <<"manual">>
    /\ correctionFactor = Q(1, 2)
    /\ screwPitch = Q(1, 1)
    /\ call.solution = [i \in 0 .. 2 |-> <<Q(1, 10), Q(-1, 20), Q(0, 1)>>[i + 1]]
    /\ lastCorrections[0] = Zero
    /\ lastCorrections[1] = Q(-3, 40)
    /\ lastCorrections[2] = Q(-1, 20)
    /\ call.reply.values[2].dir = "up"

\* Whether some solution[i] * correctionFactor of the last run exceeds
\* maxCorrection.
OverLimit ==
    \E i \in DOMAIN call.solution :
        /\ ~isnan(call.solution[i])
        /\ FGt(fabsf(FMul(call.solution[i], correctionFactor)), maxCorrection)

\* C18: after a solve the checks come in the order NaN, Z driver count,
\* limit.  A run with a NaN fails with "Calibration failed" whatever the Z
\* driver count; a run without NaN whose Z driver count differs from the
\* leadscrew count asks for manual corrections and does not fail, also when
\* a correction exceeds maxCorrection; only with matching counts does a
\* correction over the limit fail the run.
GateOrdering ==
    (call.op = Run /\ call.solved = <<TRUE>>)
        => IF \E i \in DOMAIN call.solution : isnan(call.solution[i])
           THEN /\ call.ret = TRUE
                /\ call.reply.text = "Calibration failed, computed corrections:"
                /\ call.adjust = <<>>
           ELSE IF call.numZDrivers # call.numLeadscrews
           THEN /\ call.ret = FALSE
                /\ call.reply.text = "Manual corrections required:"
                /\ call.adjust = <<>>
           ELSE IF OverLimit
           THEN /\ call.ret = TRUE
                /\ call.reply.text = "Some computed corrections exceed configured limit"
                /\ call.adjust = <<>>
           ELSE /\ call.ret = FALSE
                /\ call.reply.text = "Leadscrew adjustments made:"
                /\ Len(call.adjust) = 1

\* A run with a NaN and 4 Z drivers for 2 leadscrews: it fails at the NaN
\* check and no manual corrections are recorded.
GateOrderingSeen ==
    /\ call.op = Run
    /\ call.solved = <<TRUE>>
    /\ \E i \in DOMAIN call.solution : isnan(call.solution[i])
    /\ call.numLeadscrews = 2
    /\ call.numZDrivers = 4
    /\ call.ret = TRUE
    /\ call.reply.text = "Calibration failed, computed corrections:"
    /\ lastCorrections = [i \in Screws |-> Zero]

\* C19: every run that gets past its first two checks publishes, as the
\* initial deviation, the deviation of the probed heights; unless it moves
\* the motors (solver failure, NaN, limit, manual corrections) the latest
\* deviation it leaves published is that same deviation with 0 factors; a
\* run that moves the motors leaves the deviation of the residuals with
\* numFactors factors.  A run stopped at one of the first two checks
\* publishes nothing.
PublishedDeviations ==
    [][call'.op = Run
        => IF call'.solved = <<>>
           THEN UNCHANGED <<initialDeviation, latestDeviation>>
           ELSE /\ initialDeviation' =
                    DeviationSet(FSum([k \in 1 .. Len(call'.pp) |->
                                        FMul(call'.pp[k].z, call'.pp[k].z)]),
                                 FSum([k \in 1 .. Len(call'.pp) |-> call'.pp[k].z]),
                                 Len(call'.pp))
                /\ latestDeviation' =
                    IF adjustCalls' # adjustCalls
                    THEN [deviation |-> FinalDeviation(call'.residuals),
                          numFactors |-> call'.numFactors]
                    ELSE [deviation |-> initialDeviation', numFactors |-> 0]]_vars

\* A run on heights 2, -2, 0 refused at the limit: the published latest
\* deviation is that of the heights, not that of the residuals.
PublishedDeviationsSeen ==
    /\ call.op = Run
    /\ call.steps = Common \o <<"limit">>
    /\ initialDeviation.mean = Zero
    /\ initialDeviation.deviationSq = Q(8, 3)
    /\ latestDeviation = [deviation |-> initialDeviation, numFactors |-> 0]
    /\ call.finalDeviation # initialDeviation

\* C20: a run reads only rows of derivativeMatrix that it wrote, whatever
\* the number of probe points, and never passes 0 points to Deviation::Set.
NoUnwrittenRead ==
    call.op = Run
        => /\ call.rowsRead \subseteq call.rowsWritten
           /\ \A k \in DOMAIN call.counts : call.counts[k] # 0

\* C21: during a print warmUpDuration + totalPauseTime never exceeds the
\* time since the print started (no interval counts both as pause and as
\* warm-up), and the printTimeSinceLastSnapshot that Spin computes is never
\* negative (the uint32_t never wraps).
NonPrintingTimeWithinElapsed ==
    printMonitor.isPrinting
        => /\ printMonitor.warmUpDuration + printMonitor.totalPauseTime
                <= millis64 - printMonitor.printStartTime
           /\ \A k \in DOMAIN printMonitor.printTimeSinceLastSnapshot :
                printMonitor.printTimeSinceLastSnapshot[k] >= 0

====
